---- MODULE Spec2Model ----
(***************************************************************************)
(* MD-Easy (src/src/server.py): the refresh hook, the SSE notification     *)
(* stream and the refresh API key check.                                   *)
(*                                                                         *)
(* refresh_hook is a plain "def" endpoint, so FastAPI runs it on a worker  *)
(* thread; sse_events.stream is a coroutine on the event loop thread.  The *)
(* statements of refresh_hook therefore interleave with each other and     *)
(* with the steps of the stream generators.  A string is a sequence of     *)
(* one-character strings.                                                  *)
(***************************************************************************)
EXTENDS Naturals, Integers, Sequences, FiniteSets, Bags, TLC

\* ---------------------------------------------------------------- bounds
MaxRefresh == 3
MaxInFlight == 2
MaxSegments == 2

Requests == 1..MaxRefresh
Observers == {1, 2}

\* ---------------------------------------------------------------- strings
None == <<"<None>">>

IsSpace(c) == c \in {" ", "\t"}

RECURSIVE LStrip(_)
LStrip(s) == IF s # <<>> /\ IsSpace(Head(s)) THEN LStrip(Tail(s)) ELSE s

RECURSIVE RStrip(_)
RStrip(s) == IF s # <<>> /\ IsSpace(s[Len(s)]) THEN RStrip(SubSeq(s, 1, Len(s) - 1)) ELSE s

Strip(s) == RStrip(LStrip(s))

LowerChar(c) ==
    CASE c = "B" -> "b"
      [] c = "E" -> "e"
      [] c = "A" -> "a"
      [] c = "R" -> "r"
      [] c = "K" -> "k"
      [] c = "S" -> "s"
      [] c = "I" -> "i"
      [] c = "C" -> "c"
      [] c = "M" -> "m"
      [] c = "D" -> "d"
      [] OTHER -> c

Lower(s) == [i \in 1..Len(s) |-> LowerChar(s[i])]

StartsWith(s, p) == Len(s) >= Len(p) /\ SubSeq(s, 1, Len(p)) = p

IsAscii(s) == \A i \in 1..Len(s) : s[i] # "é"

BearerPrefix == <<"b", "e", "a", "r", "e", "r", " ">>

\* str[7:]
From7(s) == SubSeq(s, 8, Len(s))

\* ---------------------------------------------------------------- state
VARIABLES
    REFRESH_API_KEY,   \* line 24, fixed at start-up
    refresh_version,   \* _refresh_version
    refresh_event,     \* _refresh_event's flag (asyncio.Event._value)
    fut,               \* per observer: the future of its Event.wait()
    opc,               \* per observer: position in stream()
    last,              \* per observer: the local "last"
    output,            \* what the latest step sent to a client, if anything
    rpc,               \* per /refresh request, numbered by arrival: position
    tmp,               \* per request: value loaded by "_refresh_version += 1"
    call,              \* the latest call of _verify_refresh_api_key on its own
    \* History, recorded only in the specifications that set hist:
    hist,              \* whether the history below is recorded
    returned,          \* the "version" values returned so far
    pre,               \* per observer: the refreshes accepted before it
                       \*   attached that have not stored their increment yet
    owed,              \* per observer: largest generation stored by a refresh
                       \*   accepted after it attached, until a change event
                       \*   reports that generation or a larger one
    html,              \* get_doc: the href values of the rendered html, in order
    doc_path,          \* get_doc: its path argument
    doc_html,          \* get_doc: the href values of the html it returns
    \* Recorded only in the specification that sets marking:
    marking,           \* whether idle is recorded
    idle               \* per observer: it is attached, and since it
                       \*   attached no refresh has been accepted and it has
                       \*   yielded no change event

vars == <<REFRESH_API_KEY, refresh_version, refresh_event, fut, opc, last, output,
          rpc, tmp, call, html, doc_path, doc_html,
          hist, returned, pre, owed, marking, idle>>

docVars == <<html, doc_path, doc_html>>

busVars == <<refresh_version, refresh_event, fut, opc, last>>

NoOutput == [o |-> 0, kind |-> "none", version |-> 0]

\* Line 158: the response of a /refresh request that the dependency refused.
Refused(status) == [o |-> 0, kind |-> status, version |-> 0]

\* Line 172: {"ok": true, "version": v, ...}
RefreshResponse(v) == [o |-> 0, kind |-> "200", version |-> v]

\* Line 186: data: {"ping": true}
PingEvent(o) == [o |-> o, kind |-> "ping", version |-> 0]

\* Line 190: data: {"version": v}
VersionEvent(o, v) == [o |-> o, kind |-> "version", version |-> v]

Max(a, b) == IF a >= b THEN a ELSE b

Accepted == {i \in Requests : rpc[i] # "new"}

InFlight == {i \in Requests : rpc[i] \in {"store", "set", "clear", "return"}}

Attached(o) == opc[o] \notin {"detached", "gone"}

\* ---------------------------------------------------------------- access control
\* Variant: the comparison ignores letter case.
CompareDigestIgnoreCase(a, b) ==
    IF IsAscii(a) /\ IsAscii(b) THEN (IF Lower(a) = Lower(b) THEN "equal" ELSE "differ")
    ELSE "TypeError"

\* secrets.compare_digest on two str: TypeError unless both are ASCII.
CompareDigest(a, b) ==
    IF IsAscii(a) /\ IsAscii(b) THEN (IF a = b THEN "equal" ELSE "differ") ELSE "TypeError"

\* Variant: the bearer token is taken whenever there is one, X-API-Key or not.
VerifyBearerFirst(x_api_key, authorization, key) ==
    IF key = <<>> THEN "ok"
    ELSE LET raw0 == Strip(IF x_api_key = None THEN <<>> ELSE x_api_key)
             raw == IF authorization # None /\ authorization # <<>>
                       /\ StartsWith(Lower(Strip(authorization)), BearerPrefix)
                    THEN Strip(From7(Strip(authorization)))
                    ELSE raw0
         IN  IF raw = <<>> THEN "401"
             ELSE IF ~(IsAscii(raw) /\ IsAscii(key)) THEN "500"
             ELSE IF raw = key THEN "ok" ELSE "401"

\* Lines 152-158.  "ok": returns None; "401": HTTPException(401); "500": the
\* TypeError of compare_digest escapes the dependency.
VerifyRefreshApiKey(x_api_key, authorization, key) ==
    IF key = <<>> THEN "ok"
    ELSE LET raw0 == Strip(IF x_api_key = None THEN <<>> ELSE x_api_key)
             raw == IF raw0 = <<>> /\ authorization # None /\ authorization # <<>>
                       /\ StartsWith(Lower(Strip(authorization)), BearerPrefix)
                    THEN Strip(From7(Strip(authorization)))
                    ELSE raw0
         IN  IF raw = <<>> THEN "401"
             ELSE LET c == CompareDigest(raw, key)
                  IN  IF c = "TypeError" THEN "500"
                      ELSE IF c = "equal" THEN "ok" ELSE "401"

\* Line 24: (os.environ.get("REFRESH_API_KEY") or "").strip()
RefreshApiKeyFromEnv(env) == Strip(IF env = None THEN <<>> ELSE env)

\* Values the REFRESH_API_KEY environment variable is started with.
EnvKeys == { None, <<>>, <<"k", "1">>, <<" ", "k", "1", " ">> }

\* Credentials a client may send.
Creds == { <<>>, <<"k", "1">>, <<"k">>, <<"K", "1">>, <<"k", "1", "1">>, <<"é", "1">> }

\* Authorization schemes as written by clients; the first three are Bearer.
BearerForms == { <<"B","e","a","r","e","r"," ">>, <<"b","e","a","r","e","r"," ">>,
                 <<"B","E","A","R","E","R"," "," ">> }
OtherForms == { <<"B","a","s","i","c"," ">>, <<>> }

\* The HTTP parser drops optional whitespace around a field value.
HttpFieldValue(s) == Strip(s)

AuthorizationHeader(form, cred) ==
    IF cred = None THEN None ELSE HttpFieldValue(form \o cred)

XApiKeyHeader(cred) == IF cred = None THEN None ELSE HttpFieldValue(cred)

NoCall == [xc |-> None, ac |-> None, form |-> <<>>, result |-> "none"]

\* ---------------------------------------------------------------- urllib.parse
EndsWith(s, p) == Len(s) >= Len(p) /\ SubSeq(s, Len(s) - Len(p) + 1, Len(s)) = p

\* str.find(c) from position from on, counted from 1; 0 if there is none.
Find(s, c, from) ==
    IF \E i \in from..Len(s) : s[i] = c
    THEN CHOOSE i \in from..Len(s) : s[i] = c /\ \A j \in from..(i - 1) : s[j] # c
    ELSE 0

\* str.rfind(c), counted from 1; 0 if there is none.
RFind(s, c) ==
    IF \E i \in 1..Len(s) : s[i] = c
    THEN CHOOSE i \in 1..Len(s) : s[i] = c /\ \A j \in (i + 1)..Len(s) : s[j] # c
    ELSE 0

\* str.lstrip("/") and str.rstrip("/")
RECURSIVE LStripSlash(_)
LStripSlash(s) == IF s # <<>> /\ Head(s) = "/" THEN LStripSlash(Tail(s)) ELSE s

RECURSIVE RStripSlash(_)
RStripSlash(s) ==
    IF s # <<>> /\ s[Len(s)] = "/" THEN RStripSlash(SubSeq(s, 1, Len(s) - 1)) ELSE s

\* str.split(c)
RECURSIVE Split(_, _)
Split(s, c) ==
    LET i == Find(s, c, 1)
    IN  IF i = 0 THEN <<s>>
        ELSE <<SubSeq(s, 1, i - 1)>> \o Split(SubSeq(s, i + 1, Len(s)), c)

\* "/".join(parts)
RECURSIVE JoinSlash(_)
JoinSlash(parts) ==
    IF parts = <<>> THEN <<>>
    ELSE IF Len(parts) = 1 THEN parts[1]
    ELSE parts[1] \o <<"/">> \o JoinSlash(Tail(parts))

\* filter(None, parts)
RECURSIVE NonEmpty(_)
NonEmpty(parts) ==
    IF parts = <<>> THEN <<>>
    ELSE IF Head(parts) = <<>> THEN NonEmpty(Tail(parts))
    ELSE <<Head(parts)>> \o NonEmpty(Tail(parts))

AsciiLetters ==
    {"a", "b", "c", "d", "e", "f", "g", "h", "i", "j", "k", "l", "m", "n", "o", "p", "q",
     "r", "s", "t", "u", "v", "w", "x", "y", "z",
     "A", "B", "C", "D", "E", "F", "G", "H", "I", "J", "K", "L", "M", "N", "O", "P", "Q",
     "R", "S", "T", "U", "V", "W", "X", "Y", "Z"}

\* urllib.parse.scheme_chars
SchemeChars ==
    AsciiLetters \cup {"0", "1", "2", "3", "4", "5", "6", "7", "8", "9", "+", "-", "."}

\* urlsplit's _splitnetloc(url, 2): where the network location ends.
NetlocEnd(url) ==
    LET ends == { Find(url, c, 3) : c \in {"/", "?", "#"} } \ {0}
    IN  IF ends = {} THEN Len(url) + 1
        ELSE CHOOSE i \in ends : \A j \in ends : i <= j

\* urlsplit, after scheme and network location: the fragment is split off at
\* the first "#", then the query at the first "?".
UrlSplitPath(scheme, netloc, url) ==
    LET hash == Find(url, "#", 1)
        u3 == IF hash > 0 THEN SubSeq(url, 1, hash - 1) ELSE url
        qm == Find(u3, "?", 1)
    IN  [scheme |-> scheme,
         netloc |-> netloc,
         path |-> IF qm > 0 THEN SubSeq(u3, 1, qm - 1) ELSE u3,
         query |-> IF qm > 0 THEN SubSeq(u3, qm + 1, Len(u3)) ELSE <<>>,
         fragment |-> IF hash > 0 THEN SubSeq(url, hash + 1, Len(url)) ELSE <<>>]

\* urlsplit, after the scheme: a url beginning with "//" has a network
\* location, up to the next "/", "?" or "#".
UrlSplitNetloc(scheme, url) ==
    IF StartsWith(url, <<"/", "/">>)
    THEN UrlSplitPath(scheme, SubSeq(url, 3, NetlocEnd(url) - 1),
                      SubSeq(url, NetlocEnd(url), Len(url)))
    ELSE UrlSplitPath(scheme, <<>>, url)

\* Variant: the network location is never split off.
UrlParseNoNetloc(url) ==
    LET colon == Find(url, ":", 1)
    IN  IF /\ colon > 1
           /\ url[1] \in AsciiLetters
           /\ \A k \in 1..(colon - 1) : url[k] \in SchemeChars
        THEN UrlSplitPath(Lower(SubSeq(url, 1, colon - 1)), <<>>,
                          SubSeq(url, colon + 1, Len(url)))
        ELSE UrlSplitPath(<<>>, <<>>, url)

\* urllib.parse.urlparse(url) for a url without ";", "[", "]", blanks or
\* control characters: scheme, network location, path, query, fragment.
UrlParse(url) ==
    LET colon == Find(url, ":", 1)
    IN  IF /\ colon > 1
           /\ url[1] \in AsciiLetters
           /\ \A k \in 1..(colon - 1) : url[k] \in SchemeChars
        THEN UrlSplitNetloc(Lower(SubSeq(url, 1, colon - 1)),
                            SubSeq(url, colon + 1, Len(url)))
        ELSE UrlSplitNetloc(<<>>, url)

\* urllib.parse.urlunparse, parameters left out.
UrlUnparse(scheme, netloc, path, query, fragment) ==
    LET u1 == IF netloc # <<>> \/ (scheme # <<>> /\ ~StartsWith(path, <<"/", "/">>))
              THEN <<"/", "/">> \o netloc
                   \o (IF path # <<>> /\ Head(path) # "/" THEN <<"/">> ELSE <<>>) \o path
              ELSE path
        u2 == IF scheme # <<>> THEN scheme \o <<":">> \o u1 ELSE u1
        u3 == IF query # <<>> THEN u2 \o <<"?">> \o query ELSE u2
    IN  IF fragment # <<>> THEN u3 \o <<"#">> \o fragment ELSE u3

\* urljoin's loop over the segments: ".." pops (nothing, if nothing is
\* left), "." is skipped, anything else is appended.
RECURSIVE ResolveSegments(_, _)
ResolveSegments(segments, resolved) ==
    IF segments = <<>> THEN resolved
    ELSE LET seg == Head(segments)
         IN  IF seg = <<".", ".">>
             THEN ResolveSegments(Tail(segments),
                                  IF resolved = <<>> THEN <<>>
                                  ELSE SubSeq(resolved, 1, Len(resolved) - 1))
             ELSE IF seg = <<".">>
             THEN ResolveSegments(Tail(segments), resolved)
             ELSE ResolveSegments(Tail(segments), Append(resolved, seg))

\* urljoin, the segments to walk: those of the base path without its last
\* one, then those of the url's path, the empty ones in the middle filtered
\* out; a path that starts with "/" replaces the base path.
JoinSegments(bsplit, usplit, rooted) ==
    IF rooted THEN usplit
    ELSE LET joined == (IF bsplit[Len(bsplit)] # <<>>
                        THEN SubSeq(bsplit, 1, Len(bsplit) - 1) ELSE bsplit) \o usplit
         IN  IF Len(joined) < 2 THEN joined
             ELSE <<joined[1]>> \o NonEmpty(SubSeq(joined, 2, Len(joined) - 1))
                  \o <<joined[Len(joined)]>>

\* urljoin, the resolved path: the segments walked, a trailing "." or ".."
\* leaving a trailing "/"; "/" if nothing is left.
JoinResolved(segments, walked) ==
    IF segments[Len(segments)] \in {<<".">>, <<".", ".">>}
    THEN (IF JoinSlash(Append(walked, <<>>)) = <<>> THEN <<"/">>
          ELSE JoinSlash(Append(walked, <<>>)))
    ELSE (IF JoinSlash(walked) = <<>> THEN <<"/">> ELSE JoinSlash(walked))

JoinWalk(segments) == JoinResolved(segments, ResolveSegments(segments, <<>>))

\* urljoin once base and url are parsed into b and u.
UrlJoinParsed(url, b, u, scheme) ==
    IF scheme # b.scheme THEN url
    ELSE IF u.netloc # <<>>
    THEN UrlUnparse(scheme, u.netloc, u.path, u.query, u.fragment)
    ELSE IF u.path = <<>>
    THEN UrlUnparse(scheme, b.netloc, b.path,
                    IF u.query = <<>> THEN b.query ELSE u.query, u.fragment)
    ELSE UrlUnparse(scheme, b.netloc,
                    JoinWalk(JoinSegments(Split(b.path, "/"), Split(u.path, "/"),
                                          Head(u.path) = "/")),
                    u.query, u.fragment)

UrlJoinSchemes(url, b, u) ==
    UrlJoinParsed(url, b, u, IF u.scheme # <<>> THEN u.scheme ELSE b.scheme)

\* urllib.parse.urljoin(base, url) for a base and url of the schemes that
\* urljoin resolves (here: none, http, https, ftp).
UrlJoin(base, url) ==
    IF base = <<>> THEN url
    ELSE IF url = <<>> THEN base
    ELSE UrlJoinSchemes(url, UrlParse(base), UrlParse(url))

\* ---------------------------------------------------------------- link rewriting
\* Line 22 with PORT unset.
PORT == <<"8", "7", "6", "5">>

\* Variant: the base URL is a relative reference.
BaseUrlRelative(env) == <<"v", ".", "m", "d">>

\* Line 32: BASE_URL from the environment, default http://localhost:PORT.
BaseUrlFromEnv(env) ==
    RStripSlash(Strip(IF env = None \/ env = <<>>
                      THEN <<"h", "t", "t", "p", ":", "/", "/",
                             "l", "o", "c", "a", "l", "h", "o", "s", "t", ":">> \o PORT
                      ELSE env))

BASE_URL == BaseUrlFromEnv(None)

DotMd == <<".", "m", "d">>

\* Line 82
DirPart(current_doc) ==
    IF RFind(current_doc, "/") > 0
    THEN SubSeq(current_doc, 1, RFind(current_doc, "/") - 1) \o <<"/">>
    ELSE <<>>

\* Variant: the fragment of the link is not carried over.
ReplaceHrefDropsFragment(href, dir_part, base_url) ==
    IF \/ href = <<>>
       \/ StartsWith(href, <<"#">>)
       \/ StartsWith(href, <<"m", "a", "i", "l", "t", "o", ":">>)
       \/ StartsWith(href, <<"h", "t", "t", "p", ":", "/", "/">>)
       \/ StartsWith(href, <<"h", "t", "t", "p", "s", ":", "/", "/">>)
    THEN href
    ELSE
      LET parsed == UrlParse(href)
          whole == IF parsed.path # <<>> THEN parsed.path ELSE href
          path == LStripSlash(whole)
          resolved == RStripSlash(IF StartsWith(whole, <<"/">>) THEN path
                                  ELSE UrlJoin(dir_part, path))
      IN  IF parsed.scheme # <<>> \/ parsed.netloc # <<>> THEN href
          ELSE IF ~EndsWith(Lower(resolved), DotMd) THEN href
          ELSE base_url \o <<"/", "#", "/">> \o resolved

\* Lines 84-104, replace_href: the new value of one href attribute (the old
\* one where the match is returned as it was).
ReplaceHref(href, dir_part, base_url) ==
    IF \/ href = <<>>
       \/ StartsWith(href, <<"#">>)
       \/ StartsWith(href, <<"m", "a", "i", "l", "t", "o", ":">>)
       \/ StartsWith(href, <<"h", "t", "t", "p", ":", "/", "/">>)
       \/ StartsWith(href, <<"h", "t", "t", "p", "s", ":", "/", "/">>)
    THEN href
    ELSE
      LET parsed == UrlParse(href)
          whole == IF parsed.path # <<>> THEN parsed.path ELSE href
          path == LStripSlash(whole)
          resolved == RStripSlash(IF StartsWith(whole, <<"/">>) THEN path
                                  ELSE UrlJoin(dir_part, path))
      IN  IF parsed.scheme # <<>> \/ parsed.netloc # <<>> THEN href
          ELSE IF ~EndsWith(Lower(resolved), DotMd) THEN href
          ELSE base_url \o <<"/", "#", "/">> \o resolved
               \o (IF parsed.fragment # <<>> THEN <<"#">> \o parsed.fragment ELSE <<>>)

\* Lines 77-106.  The html is the sequence of the values of its href="..."
\* attributes (none with a quote inside); re.sub replaces each in turn and
\* leaves the text between them alone.
RewriteMdLinksInHtml(html_in, current_doc, base_url) ==
    IF current_doc = <<>> \/ base_url = <<>> THEN html_in
    ELSE [k \in 1..Len(html_in) |-> ReplaceHref(html_in[k], DirPart(current_doc), base_url)]

\* The documents asked for: nested, one level down, directly at the root.
Docs ==
    { <<"d", "o", "c", "s", "/", "g", "u", "i", "d", "e", "/",
        "s", "e", "t", "u", "p", ".", "m", "d">>,
      <<"d", "o", "c", "s", "/", "s", "e", "t", "u", "p", ".", "m", "d">>,
      <<"s", "e", "t", "u", "p", ".", "m", "d">> }

\* The links of a document: a prefix, up to MaxSegments path segments joined
\* by "/", and a suffix.
IntroMd == <<"i", "n", "t", "r", "o", ".", "m", "d">>

PathSegments ==
    { <<".", ".">>, <<".">>, <<>>, <<"d", "o", "c", "s">>, IntroMd,
      <<"I", "n", "t", "r", "o", ".", "M", "D">>,
      <<"i", "m", "a", "g", "e", ".", "p", "n", "g">> }

Prefixes ==
    { <<>>, <<"/">>, <<"/", "/">>, <<"#">>,
      <<"m", "a", "i", "l", "t", "o", ":">>,
      <<"h", "t", "t", "p", ":", "/", "/">>,
      <<"h", "t", "t", "p", "s", ":", "/", "/">>,
      <<"f", "t", "p", ":">> }

Suffixes ==
    { <<>>, <<"/">>, <<"?", "v">>, <<"?">> \o IntroMd,
      <<"#", "p", "a", "r", "t", "2">>, <<"#">> \o IntroMd,
      <<"?", "v", "#", "p", "a", "r", "t", "2">> }

Hrefs ==
    { p \o JoinSlash(ss) \o x :
        p \in Prefixes,
        ss \in UNION { [1..n -> PathSegments] : n \in 0..MaxSegments },
        x \in Suffixes }

\* Rendered documents: no link, one link, or a link followed by another.
Htmls == {<<>>} \cup { <<h>> : h \in Hrefs } \cup { <<h, IntroMd>> : h \in Hrefs }

\* ---------------------------------------------------------------- history
histVars == <<hist, returned, pre, owed>>

markVars == <<marking, idle>>

NoHistory == UNCHANGED <<histVars, markVars>>

\* A response of refresh_hook was sent with this version.
HistoryOfReturn(v) ==
    /\ returned' = IF hist THEN returned \cup {v} ELSE returned
    /\ UNCHANGED <<hist, pre, owed, markVars>>

\* Request i stored generation v.
HistoryOfStore(i, v) ==
    /\ owed' = IF hist
               THEN [o \in Observers |->
                        IF Attached(o) /\ i \notin pre[o] THEN Max(owed[o], v) ELSE owed[o]]
               ELSE owed
    /\ pre' = IF hist THEN [o \in Observers |-> pre[o] \ {i}] ELSE pre
    /\ UNCHANGED <<hist, returned, markVars>>

\* A refresh was accepted.
HistoryOfAccept ==
    /\ idle' = [o \in Observers |-> FALSE]
    /\ UNCHANGED <<histVars, marking>>

\* Stream o attached.
HistoryOfStart(o) ==
    /\ pre' = IF hist
              THEN [pre EXCEPT ![o] = {i \in Requests : rpc[i] = "store"}]
              ELSE pre
    /\ idle' = IF marking THEN [idle EXCEPT ![o] = TRUE] ELSE idle
    /\ UNCHANGED <<hist, returned, owed, marking>>

\* Stream o yielded a change event carrying generation v.
HistoryOfYield(o, v) ==
    /\ owed' = [owed EXCEPT ![o] = IF v >= @ THEN 0 ELSE @]
    /\ idle' = [idle EXCEPT ![o] = FALSE]
    /\ UNCHANGED <<hist, returned, pre, marking>>

\* Stream o is gone.
HistoryOfCancel(o) ==
    /\ pre' = [pre EXCEPT ![o] = {}]
    /\ owed' = [owed EXCEPT ![o] = 0]
    /\ idle' = [idle EXCEPT ![o] = FALSE]
    /\ UNCHANGED <<hist, returned, marking>>

\* ---------------------------------------------------------------- Init
\* Lines 22-48: the module is loaded.
Start ==
    /\ REFRESH_API_KEY \in { RefreshApiKeyFromEnv(e) : e \in EnvKeys }
    /\ refresh_version = 0
    /\ refresh_event = FALSE
    /\ fut = [o \in Observers |-> "none"]
    /\ opc = [o \in Observers |-> "detached"]
    /\ last = [o \in Observers |-> 0]
    /\ output = NoOutput
    /\ rpc = [i \in Requests |-> "new"]
    /\ tmp = [i \in Requests |-> 0]
    /\ call = NoCall
    /\ returned = {}
    /\ pre = [o \in Observers |-> {}]
    /\ owed = [o \in Observers |-> 0]
    /\ idle = [o \in Observers |-> FALSE]

\* No document has been asked for.
NoDoc == html = <<>> /\ doc_path = None /\ doc_html = None

Init == Start /\ hist = FALSE /\ marking = FALSE /\ NoDoc

InitHist == Start /\ hist = TRUE /\ marking = FALSE /\ NoDoc

\* No key is configured (the default), so every refresh is accepted.
InitMark == Start /\ REFRESH_API_KEY = <<>> /\ hist = FALSE /\ marking = TRUE /\ NoDoc

\* A document with these links is asked for.
InitDoc ==
    /\ Start /\ REFRESH_API_KEY = <<>> /\ hist = FALSE /\ marking = FALSE
    /\ html \in Htmls
    /\ doc_path \in Docs
    /\ doc_html = None

\* ---------------------------------------------------------------- POST /refresh
\* Headers of the requests that arrive.
ReqXApiKeys == { None, <<"k", "1">>, <<"k">> }
ReqAuthorizations == { None, <<"B","e","a","r","e","r"," ","k","1">> }

\* Variant: the generation is bumped before the key is verified.
RefreshRequestBumpFirst(i, x_api_key, authorization) ==
    /\ rpc[i] = "new"
    /\ \A j \in 1..(i - 1) : rpc[j] # "new"
    /\ LET v == VerifyRefreshApiKey(x_api_key, authorization, REFRESH_API_KEY)
       IN  IF v = "ok"
           THEN /\ Cardinality(InFlight) < MaxInFlight
                /\ rpc' = [rpc EXCEPT ![i] = "store"]
                /\ tmp' = [tmp EXCEPT ![i] = refresh_version]
                /\ output' = NoOutput
                /\ refresh_version' = refresh_version
                /\ HistoryOfAccept
           ELSE /\ output' = Refused(v)
                /\ refresh_version' = refresh_version + 1
                /\ UNCHANGED <<rpc, tmp>>
                /\ NoHistory
    /\ UNCHANGED <<REFRESH_API_KEY, refresh_event, fut, opc, last, call, docVars>>

\* Lines 161 and 169: the dependency runs first; refresh_hook runs only if
\* it returns, and then begins "_refresh_version += 1" with the load of the
\* global.  Nothing shared is touched between the dependency's return and
\* that load, so the two are one step.  Accepted requests are numbered by
\* arrival; a refused one leaves nothing behind but its 401 (or 500) response.
RefreshRequest(i, x_api_key, authorization) ==
    /\ rpc[i] = "new"
    /\ \A j \in 1..(i - 1) : rpc[j] # "new"
    /\ LET v == VerifyRefreshApiKey(x_api_key, authorization, REFRESH_API_KEY)
       IN  IF v = "ok"
           THEN /\ Cardinality(InFlight) < MaxInFlight
                /\ rpc' = [rpc EXCEPT ![i] = "store"]
                /\ tmp' = [tmp EXCEPT ![i] = refresh_version]
                /\ output' = NoOutput
                /\ HistoryOfAccept
           ELSE /\ output' = Refused(v)
                /\ UNCHANGED <<rpc, tmp>>
                /\ NoHistory
    /\ UNCHANGED <<REFRESH_API_KEY, busVars, call, docVars>>

\* Line 169 again: the store of the incremented value.
RefreshStore(i) ==
    /\ rpc[i] = "store"
    /\ refresh_version' = tmp[i] + 1
    /\ tmp' = [tmp EXCEPT ![i] = 0]
    /\ rpc' = [rpc EXCEPT ![i] = "set"]
    /\ output' = NoOutput
    /\ UNCHANGED <<REFRESH_API_KEY, refresh_event, fut, opc, last, call, docVars>>
    /\ HistoryOfStore(i, tmp[i] + 1)

\* Variant: set() hands the wake-up to a single waiter.
WokenOnlyOne(f) ==
    IF \E o \in Observers : f[o] = "pending"
    THEN [f EXCEPT ![CHOOSE o \in Observers : f[o] = "pending"] = "done"]
    ELSE f

\* asyncio.Event.set(): every future waiting at that moment is resolved.
Woken(f) == [o \in Observers |-> IF f[o] = "pending" THEN "done" ELSE f[o]]

\* Line 170, _refresh_event.set()
RefreshSet(i) ==
    /\ rpc[i] = "set"
    /\ refresh_event' = TRUE
    /\ fut' = Woken(fut)
    /\ rpc' = [rpc EXCEPT ![i] = "clear"]
    /\ output' = NoOutput
    /\ UNCHANGED <<REFRESH_API_KEY, refresh_version, opc, last, tmp, call, docVars>>
    /\ NoHistory

\* Line 171, _refresh_event.clear()
RefreshClear(i) ==
    /\ rpc[i] = "clear"
    /\ refresh_event' = FALSE
    /\ rpc' = [rpc EXCEPT ![i] = "return"]
    /\ output' = NoOutput
    /\ UNCHANGED <<REFRESH_API_KEY, refresh_version, fut, opc, last, tmp, call, docVars>>
    /\ NoHistory

\* Line 172: the response reads _refresh_version again.
RefreshReturn(i) ==
    /\ rpc[i] = "return"
    /\ output' = RefreshResponse(refresh_version)
    /\ rpc' = [rpc EXCEPT ![i] = "done"]
    /\ UNCHANGED <<REFRESH_API_KEY, busVars, tmp, call, docVars>>
    /\ HistoryOfReturn(refresh_version)

\* ---------------------------------------------------------------- GET /api/events
\* Line 181: the generator starts and reads the generation.  Streams are
\* numbered by arrival.
StreamStart(o) ==
    /\ opc[o] = "detached"
    /\ \A p \in 1..(o - 1) : opc[p] # "detached"
    /\ last' = [last EXCEPT ![o] = refresh_version]
    /\ opc' = [opc EXCEPT ![o] = "wait"]
    /\ output' = NoOutput
    /\ UNCHANGED <<REFRESH_API_KEY, refresh_version, refresh_event, fut, rpc, tmp, call, docVars>>
    /\ HistoryOfStart(o)

\* Variant: a wait() that returns at once goes straight to the yield.
StreamWaitSkipsCompare(o) ==
    /\ opc[o] = "wait"
    /\ IF refresh_event
       THEN /\ opc' = [opc EXCEPT ![o] = "assign"]
            /\ fut' = fut
       ELSE /\ opc' = [opc EXCEPT ![o] = "blocked"]
            /\ fut' = [fut EXCEPT ![o] = "pending"]
    /\ output' = NoOutput
    /\ UNCHANGED <<REFRESH_API_KEY, refresh_version, refresh_event, last, rpc, tmp, call, docVars>>
    /\ NoHistory

\* Line 184, _refresh_event.wait(): returns at once if the flag is on, else
\* parks a future among the event's waiters.
StreamWait(o) ==
    /\ opc[o] = "wait"
    /\ IF refresh_event
       THEN /\ opc' = [opc EXCEPT ![o] = "check"]
            /\ fut' = fut
       ELSE /\ opc' = [opc EXCEPT ![o] = "blocked"]
            /\ fut' = [fut EXCEPT ![o] = "pending"]
    /\ output' = NoOutput
    /\ UNCHANGED <<REFRESH_API_KEY, refresh_version, refresh_event, last, rpc, tmp, call, docVars>>
    /\ NoHistory

\* Variant: every wake-up is reported, the comparison is skipped.
CompareAlways(o) == "assign"

\* Line 188, "if _refresh_version != last": where the generator goes next.
Compare(o) == IF refresh_version # last[o] THEN "assign" ELSE "wait"

\* Lines 184 and 188 after a wake-up: the future was resolved by set(), the
\* generator resumes (a step that touches nothing shared) and compares.
StreamResume(o) ==
    /\ opc[o] = "blocked"
    /\ fut[o] = "done"
    /\ fut' = [fut EXCEPT ![o] = "none"]
    /\ opc' = [opc EXCEPT ![o] = Compare(o)]
    /\ output' = NoOutput
    /\ UNCHANGED <<REFRESH_API_KEY, refresh_version, refresh_event, last, rpc, tmp, call, docVars>>
    /\ NoHistory

\* Line 188 after a wait() that returned at once.
StreamCompare(o) ==
    /\ opc[o] = "check"
    /\ opc' = [opc EXCEPT ![o] = Compare(o)]
    /\ output' = NoOutput
    /\ UNCHANGED <<REFRESH_API_KEY, refresh_version, refresh_event, fut, last, rpc, tmp, call, docVars>>
    /\ NoHistory

\* Variant: after a timeout the generator falls through to the comparison.
StreamTimeoutFallsThrough(o) ==
    /\ opc[o] = "blocked"
    /\ fut[o] = "pending"
    /\ fut' = [fut EXCEPT ![o] = "none"]
    /\ opc' = [opc EXCEPT ![o] = Compare(o)]
    /\ output' = PingEvent(o)
    /\ UNCHANGED <<REFRESH_API_KEY, refresh_version, refresh_event, last, rpc, tmp, call, docVars>>
    /\ NoHistory

\* Lines 185-187: 30 s pass with the future unresolved; a ping is yielded
\* and the loop continues.
StreamTimeout(o) ==
    /\ opc[o] = "blocked"
    /\ fut[o] = "pending"
    /\ fut' = [fut EXCEPT ![o] = "none"]
    /\ opc' = [opc EXCEPT ![o] = "wait"]
    /\ output' = PingEvent(o)
    /\ UNCHANGED <<REFRESH_API_KEY, refresh_version, refresh_event, last, rpc, tmp, call, docVars>>
    /\ NoHistory

\* Variant: the generator returns after its first change event.
StreamYieldVersionAndReturn(o) ==
    /\ opc[o] = "assign"
    /\ last' = [last EXCEPT ![o] = refresh_version]
    /\ opc' = [opc EXCEPT ![o] = "gone"]
    /\ output' = VersionEvent(o, refresh_version)
    /\ UNCHANGED <<REFRESH_API_KEY, refresh_version, refresh_event, fut, rpc, tmp, call, docVars>>
    /\ HistoryOfYield(o, refresh_version)

\* Lines 189-190: last = _refresh_version (a second read of the global);
\* the change event carrying it is yielded.
StreamYieldVersion(o) ==
    /\ opc[o] = "assign"
    /\ last' = [last EXCEPT ![o] = refresh_version]
    /\ opc' = [opc EXCEPT ![o] = "wait"]
    /\ output' = VersionEvent(o, refresh_version)
    /\ UNCHANGED <<REFRESH_API_KEY, refresh_version, refresh_event, fut, rpc, tmp, call, docVars>>
    /\ HistoryOfYield(o, refresh_version)

\* Variant: cancelling one wait drops every waiter of the event.
StreamCancelDropsWaiters(o) ==
    /\ Attached(o)
    /\ opc' = [opc EXCEPT ![o] = "gone"]
    /\ fut' = [p \in Observers |-> "none"]
    /\ last' = [last EXCEPT ![o] = 0]
    /\ output' = NoOutput
    /\ UNCHANGED <<REFRESH_API_KEY, refresh_version, refresh_event, rpc, tmp, call, docVars>>
    /\ HistoryOfCancel(o)

\* The client disconnects: the generator is cancelled wherever it is.
StreamCancel(o) ==
    /\ Attached(o)
    /\ opc' = [opc EXCEPT ![o] = "gone"]
    /\ fut' = [fut EXCEPT ![o] = "none"]
    /\ last' = [last EXCEPT ![o] = 0]
    /\ output' = NoOutput
    /\ UNCHANGED <<REFRESH_API_KEY, refresh_version, refresh_event, rpc, tmp, call, docVars>>
    /\ HistoryOfCancel(o)

\* ---------------------------------------------------------------- specifications
Next ==
    \/ \E i \in Requests, x \in ReqXApiKeys, a \in ReqAuthorizations : RefreshRequest(i, x, a)
    \/ \E i \in Requests : RefreshStore(i)
    \/ \E i \in Requests : RefreshSet(i)
    \/ \E i \in Requests : RefreshClear(i)
    \/ \E i \in Requests : RefreshReturn(i)
    \/ \E o \in Observers : StreamStart(o)
    \/ \E o \in Observers : StreamWait(o)
    \/ \E o \in Observers : StreamResume(o)
    \/ \E o \in Observers : StreamCompare(o)
    \/ \E o \in Observers : StreamTimeout(o)
    \/ \E o \in Observers : StreamYieldVersion(o)
    \/ \E o \in Observers : StreamCancel(o)

Spec == Init /\ [][Next]_vars

\* The same program with the history recorded.
SpecHist == InitHist /\ [][Next]_vars

\* The same program with idle recorded.
SpecMark == InitMark /\ [][Next]_vars

\* The worker threads and the event loop keep running: every step of an
\* accepted refresh and of a connected stream is eventually taken, and the
\* 30 s timer of a blocked wait fires.  New requests, new connections and
\* disconnections are up to the clients.
Fairness ==
    /\ \A i \in Requests :
         WF_vars(RefreshStore(i) \/ RefreshSet(i) \/ RefreshClear(i) \/ RefreshReturn(i))
    /\ \A o \in Observers :
         /\ WF_vars(StreamWait(o) \/ StreamResume(o) \/ StreamCompare(o) \/ StreamYieldVersion(o))
         /\ WF_vars(StreamTimeout(o))

FairSpecHist == SpecHist /\ Fairness

\* _verify_refresh_api_key on its own, over requests built from the
\* credential sent in each carrier.
VerifyCall(xc, ac, form) ==
    /\ call' = [xc |-> xc, ac |-> ac, form |-> form,
                result |-> VerifyRefreshApiKey(XApiKeyHeader(xc), AuthorizationHeader(form, ac),
                                               REFRESH_API_KEY)]
    /\ UNCHANGED <<REFRESH_API_KEY, busVars, output, rpc, tmp, docVars>>
    /\ NoHistory

NextAuth ==
    \E xc \in Creds \cup {None}, ac \in Creds \cup {None}, form \in BearerForms \cup OtherForms :
        VerifyCall(xc, ac, form)

SpecAuth == Init /\ [][NextAuth]_vars

\* Lines 121-134, get_doc: the rendered html goes through
\* _rewrite_md_links_in_html with the path asked for and BASE_URL.
GetDoc ==
    /\ doc_html = None
    /\ doc_path # None /\ doc_path # <<>>
    /\ doc_html' = RewriteMdLinksInHtml(html, doc_path, BASE_URL)
    /\ UNCHANGED <<REFRESH_API_KEY, busVars, output, rpc, tmp, call, html, doc_path>>
    /\ NoHistory

NextDoc == GetDoc

SpecDoc == InitDoc /\ [][NextDoc]_vars

\* ---------------------------------------------------------------- properties
IsVersionEvent(e, o) == e.o = o /\ e.kind = "version"

\* A step in which the stream of o yields a change event.
YieldsVersion(o) == opc[o] = "assign" /\ IsVersionEvent(output', o)

\* C1: once the N accepted refresh calls have all returned, the values they
\* returned are exactly 1..N (the generation starts at 0): none twice, none
\* skipped.
C1_ReturnedVersionsAreDistinct ==
    InFlight = {} => returned = 1..Cardinality(Accepted)

\* C2: the generation never decreases, and whenever every accepted refresh has
\* done its increment it equals the number of accepted refreshes.
C2_GenerationCountsRefreshes ==
    [][ /\ refresh_version' >= refresh_version
        /\ (\A i \in Requests : rpc'[i] # "store")
              => refresh_version' = Cardinality(Accepted') ]_vars

\* C3: a generation stored by a refresh while an observer is attached is
\* eventually reported to it by a change event carrying at least that
\* generation (or the observer disconnects), with no further refresh needed.
C3_RefreshEventuallyReported ==
    \A o \in Observers : (owed[o] > 0) ~> (owed[o] = 0)

\* C4: an observer that starts waiting with its last seen generation below
\* the current one, no refresh being in progress, does not block.
C4_BehindObserverDoesNotBlock ==
    [][ \A o \in Observers :
          (opc[o] = "wait" /\ last[o] < refresh_version /\ InFlight = {})
             => opc'[o] # "blocked" ]_vars

\* A step that is the set() of some refresh.
IsSetStep == \E i \in Requests : rpc[i] = "set" /\ rpc'[i] = "clear"

\* A step in which observer o, woken in its wait, leaves the wait.
LeavesWaitWoken(o) ==
    opc[o] = "blocked" /\ fut[o] = "done" /\ opc'[o] \notin {"blocked", "gone"}

\* C5 as stated: set() wakes every observer blocked in the wait, and each of
\* them, on leaving the wait, goes on to yield a change event.
C5_EveryWokenObserverEmits ==
    [][ /\ IsSetStep => \A o \in Observers : fut[o] = "pending" => fut'[o] = "done"
        /\ \A o \in Observers : LeavesWaitWoken(o) => opc'[o] = "assign" ]_vars

\* C5 as amended: set() wakes every observer blocked in the wait, not just
\* one; a woken observer stays woken through clear() until it leaves the
\* wait; on leaving it yields a change event exactly when the generation
\* differs from its last seen one, and the event carries the generation read
\* at the yield.
C5_SetWakesAllWaiters ==
    [][ /\ IsSetStep => \A o \in Observers : fut[o] = "pending" => fut'[o] = "done"
        /\ \A o \in Observers :
             /\ (fut[o] = "done" /\ opc'[o] = "blocked") => fut'[o] = "done"
             /\ LeavesWaitWoken(o) => (opc'[o] = "assign" <=> refresh_version # last[o])
             /\ YieldsVersion(o) => output'.version = refresh_version ]_vars

\* Both observers were blocked, one set() resolved both futures, and the
\* event has been cleared again.
C5_Witness ==
    /\ \A o \in Observers : opc[o] = "blocked" /\ fut[o] = "done"
    /\ ~refresh_event
    /\ Cardinality(Accepted) = 1

\* A step that answers a /refresh request with a rejection.
IsRefusal == output' # output /\ output'.kind \in {"401", "500"}

\* C6: a step that rejects a refresh request changes no state: not the
\* generation, the event, any waiter or stream, or any refresh in progress;
\* and requests are rejected only when a key is configured.
C6_RejectedRefreshChangesNothing ==
    [][ IsRefusal
          => /\ REFRESH_API_KEY # <<>>
             /\ UNCHANGED <<refresh_version, refresh_event, fut, opc, last, rpc, tmp>>
             /\ NoHistory ]_vars

\* A request was just rejected while an observer is blocked in its wait, a
\* refresh is about to call set(), and the generation is 1.
C6_Witness ==
    /\ output.kind = "401"
    /\ \E o \in Observers : opc[o] = "blocked" /\ fut[o] = "pending"
    /\ \E i \in Requests : rpc[i] = "set"
    /\ refresh_version = 1

\* The credential a call carries as a bearer token, if any.
BearerCred == IF call.ac # None /\ call.form \in BearerForms THEN call.ac ELSE None

\* C7: with no key configured every call is authorized; with a key
\* configured a call that uses one carrier at most is authorized exactly
\* when the credential in that carrier equals the key, X-API-Key and
\* Authorization: Bearer alike.
C7_AuthorizedIffExactKey ==
    call.result # "none" =>
        /\ REFRESH_API_KEY = <<>> => call.result = "ok"
        /\ (REFRESH_API_KEY # <<>> /\ BearerCred = None)
              => (call.result = "ok" <=> call.xc = REFRESH_API_KEY)
        /\ (REFRESH_API_KEY # <<>> /\ call.xc = None)
              => (call.result = "ok" <=> BearerCred = REFRESH_API_KEY)

\* A call authorized by its bearer token alone, written "BEARER  <key>".
C7_Witness ==
    /\ REFRESH_API_KEY # <<>>
    /\ call.result = "ok"
    /\ call.xc = None
    /\ call.ac = REFRESH_API_KEY
    /\ call.form = <<"B","E","A","R","E","R"," "," ">>

\* C8 as stated: when the X-API-Key header is present, it alone decides.
C8_XApiKeyAloneDecides ==
    (call.result # "none" /\ REFRESH_API_KEY # <<>> /\ call.xc # None)
        => (call.result = "ok" <=> call.xc = REFRESH_API_KEY)

\* C8 as amended: when the X-API-Key header is present and not empty, it
\* alone decides.
C8_NonEmptyXApiKeyAloneDecides ==
    (call.result # "none" /\ REFRESH_API_KEY # <<>> /\ call.xc # None /\ call.xc # <<>>)
        => (call.result = "ok" <=> call.xc = REFRESH_API_KEY)

\* A wrong X-API-Key together with the right bearer token: rejected.
C8_Witness ==
    /\ REFRESH_API_KEY # <<>>
    /\ call.xc = <<"k">>
    /\ BearerCred = REFRESH_API_KEY
    /\ call.result = "401"

C10_ReportedGenerationsIncrease ==
    [][ \A o \in Observers : IsVersionEvent(output', o) => output'.version > last[o] ]_vars

\* ---------------------------------------------------------------- C11
Disconnects(o) == Attached(o) /\ opc'[o] = "gone"

\* C11: when an observer disconnects, the generation, the event, every
\* refresh in progress and every other observer (its last seen generation,
\* its position, its pending or resolved wait) stay as they were; and a
\* set() made after a disconnection still resolves the wait of every
\* observer blocked at that moment.
C11_DisconnectTouchesNothingElse ==
    [][ /\ \A o \in Observers :
             Disconnects(o) =>
                 /\ UNCHANGED <<refresh_version, refresh_event, rpc, tmp>>
                 /\ output' = NoOutput
                 /\ \A p \in Observers \ {o} :
                        last'[p] = last[p] /\ opc'[p] = opc[p] /\ fut'[p] = fut[p]
        /\ (IsSetStep /\ \E o \in Observers : opc[o] = "gone") =>
               \A p \in Observers : fut[p] = "pending" => fut'[p] = "done" ]_vars

\* One observer has disconnected while blocked peers remained, and the
\* other, still blocked, has had its wait resolved by a later set().
C11_Witness ==
    /\ opc[1] = "gone"
    /\ opc[2] = "blocked" /\ fut[2] = "done"
    /\ last[2] = 0 /\ refresh_version = 1
    /\ \E i \in Requests : rpc[i] = "clear"

\* ---------------------------------------------------------------- C12
TimesOut(o) ==
    opc[o] = "blocked" /\ fut[o] = "pending" /\ opc'[o] \notin {"blocked", "gone"}

\* C12: a wait that times out unresolved yields one ping and nothing else,
\* leaves the observer's last seen generation as it was, and takes the
\* observer back to a new wait; a ping is yielded by nothing but a timeout.
C12_TimeoutOnlyPings ==
    [][ \A o \in Observers :
          /\ TimesOut(o) =>
                /\ output' = PingEvent(o)
                /\ last'[o] = last[o]
                /\ opc'[o] = "wait"
                /\ fut'[o] = "none"
                /\ refresh_version' = refresh_version
          /\ (output' = PingEvent(o) /\ output' # output) => TimesOut(o) ]_vars

\* An observer that is behind the generation has just pinged after a
\* timeout and is about to wait again with the same last seen generation.
C12_Witness ==
    \E o \in Observers :
        /\ output = PingEvent(o)
        /\ opc[o] = "wait"
        /\ last[o] = 0
        /\ refresh_version = 1

\* ---------------------------------------------------------------- C13
\* The generator is at a wait or on its way to a yield.
InLoop(o) ==
    \/ opc[o] = "wait" /\ fut[o] = "none"
    \/ opc[o] = "blocked" /\ fut[o] \in {"pending", "done"}
    \/ opc[o] = "check" /\ fut[o] = "none"
    \/ opc[o] = "assign" /\ fut[o] = "none"

\* C13: a connected stream is always at a wait or about to yield, it goes
\* back to a wait after every event it yields, and it ends only by a step
\* that yields nothing and touches neither the generation nor the event,
\* i.e. the client's disconnection.
C13_StreamNeverEndsOnItsOwn ==
    [][ \A o \in Observers :
          /\ Attached(o)' => InLoop(o)'
          /\ (output' # NoOutput /\ output'.o = o) => opc'[o] = "wait"
          /\ (opc[o] # "gone" /\ opc'[o] = "gone") =>
                /\ Attached(o)
                /\ output' = NoOutput
                /\ UNCHANGED <<refresh_version, refresh_event, rpc, tmp>> ]_vars

\* After three refreshes the observer has yielded the change event carrying
\* generation 3 and its stream is back at a wait.
C13_Witness ==
    \E o \in Observers :
        /\ IsVersionEvent(output, o) /\ output.version = 3
        /\ opc[o] = "wait"
        /\ last[o] = 3

\* ---------------------------------------------------------------- C19
\* A change event is due to the observer: it has found, or would find at
\* its next comparison, the generation different from its last seen one.
Due(o) == Attached(o) /\ (opc[o] = "assign" \/ refresh_version # last[o])

IsStoreStep == \E i \in Requests : rpc[i] = "store" /\ rpc'[i] = "set"

\* C19 as stated has this consequence: an observer yields at most one change
\* event per pass of its loop, carrying the generation read at that moment,
\* and does not yield its first one while no refresh has been accepted
\* since it attached (one event would outnumber no refresh).
C19_EventsBoundedByAccepted ==
    [][ \A o \in Observers :
          YieldsVersion(o) =>
              /\ output'.version = refresh_version
              /\ opc'[o] = "wait"
              /\ ~idle[o] ]_vars

\* C19, amended: an observer yields at most one change event per pass of
\* its loop, carrying the generation read at that moment; a change event
\* becomes due to an attached observer only by a store of the generation,
\* and each change event it yields settles what was due.  Hence every change
\* event answers a different increment stored since the observer attached
\* (by a refresh accepted before or after), and the events never outnumber
\* those increments.
C19_EventsBoundedByIncrements ==
    [][ \A o \in Observers :
          /\ YieldsVersion(o) =>
                /\ output'.version = refresh_version
                /\ opc'[o] = "wait"
                /\ Due(o) /\ ~Due(o)'
          /\ (opc[o] = "detached" /\ Attached(o)') => ~Due(o)'
          /\ (Attached(o) /\ ~Due(o) /\ Due(o)') => IsStoreStep ]_vars

\* Three increments were stored, the observer has yielded the change event
\* carrying generation 3 and is back at a wait; a refresh was accepted
\* since it attached.
C19_Witness ==
    \E o \in Observers :
        /\ IsVersionEvent(output, o) /\ output.version = 3
        /\ last[o] = 3 /\ opc[o] = "wait"
        /\ ~idle[o]
        /\ marking

\* ---------------------------------------------------------------- links
Links == IF doc_html = None THEN {} ELSE 1..Len(html)

Rewritten(k) == doc_html[k] # html[k]

\* RFC 3986, 3.1: the link begins with a scheme and a colon.
HasScheme(h) ==
    \E i \in 2..Len(h) :
        /\ h[i] = ":"
        /\ h[1] \in AsciiLetters
        /\ \A j \in 1..(i - 1) : h[j] \in SchemeChars

\* RFC 3986, 3.2: the link, with no scheme, begins with "//" and a host.
HasHost(h) ==
    /\ Len(h) >= 3
    /\ h[1] = "/" /\ h[2] = "/"
    /\ h[3] \notin {"/", "?", "#"}

Excluded(h) ==
    \/ h = <<>>
    \/ h[1] = "#"
    \/ StartsWith(h, <<"m", "a", "i", "l", "t", "o", ":">>)
    \/ HasScheme(h)
    \/ HasHost(h)

\* RFC 3986, 3: the path of a link with no scheme and no host ends at the
\* first "?" or "#", the fragment begins after the first "#".
HrefPath(h) ==
    LET ends == { Find(h, c, 1) : c \in {"?", "#"} } \ {0}
    IN  IF ends = {} THEN h
        ELSE SubSeq(h, 1, (CHOOSE i \in ends : \A j \in ends : i <= j) - 1)

HrefFragment(h) ==
    IF Find(h, "#", 1) = 0 THEN <<>> ELSE SubSeq(h, Find(h, "#", 1) + 1, Len(h))

IsMd(p) == EndsWith(Lower(p), DotMd)

\* The target {base_url}/#/{candidate}, with the link's fragment if any.
Target(candidate, h) ==
    BASE_URL \o <<"/", "#", "/">> \o candidate
    \o (IF HrefFragment(h) # <<>> THEN <<"#">> \o HrefFragment(h) ELSE <<>>)

\* RFC 3986, 5.2.4: "." segments are removed, and ".." segments with the
\* segment before them (or alone, where there is none before).
RECURSIVE RemoveDots(_, _)
RemoveDots(segments, done) ==
    IF segments = <<>> THEN done
    ELSE LET seg == Head(segments)
             last_one == Len(segments) = 1
         IN  IF seg = <<".", ".">>
             THEN RemoveDots(Tail(segments),
                             (IF done = <<>> THEN <<>> ELSE SubSeq(done, 1, Len(done) - 1))
                             \o (IF last_one THEN << <<>> >> ELSE <<>>))
             ELSE IF seg = <<".">>
             THEN RemoveDots(Tail(segments), done \o (IF last_one THEN << <<>> >> ELSE <<>>))
             ELSE RemoveDots(Tail(segments), Append(done, seg))

\* RFC 3986, 5.2: the path of the link merged with the directory of the
\* document, dot segments removed.
StandardResolve(doc, p) == JoinSlash(RemoveDots(Split(DirPart(doc) \o p, "/"), <<>>))

\* C14: a link that is not excluded and not root-relative is resolved against
\* the directory of the current document by standard relative resolution:
\* it is rewritten to the target of the resolved path when that path, its
\* trailing "/" stripped, ends in .md, and left as it was otherwise.
C14_RelativeLinksResolvedStandardly ==
    \A k \in Links :
        LET h == html[k]
            candidate == RStripSlash(StandardResolve(doc_path, HrefPath(h)))
        IN  (~Excluded(h) /\ h[1] # "/") =>
                doc_html[k] = IF IsMd(candidate) THEN Target(candidate, h) ELSE h

\* The candidate as the code resolves it, from the path of the link alone.
CandidatePath(doc, h) ==
    RStripSlash(IF h[1] = "/" THEN LStripSlash(HrefPath(h))
                ELSE UrlJoin(DirPart(doc), HrefPath(h)))

\* C15: a link that is not excluded is rewritten exactly when the path of
\* its resolved candidate ends in .md whatever the letter case; any other
\* link is left as it was, and the target of a rewritten link has no "?".
C15_RewrittenIffPathEndsInMd ==
    \A k \in Links :
        LET h == html[k]
        IN  ~Excluded(h) =>
                /\ Rewritten(k) <=> IsMd(CandidatePath(doc_path, h))
                /\ Rewritten(k) => Find(doc_html[k], "?", 1) = 0

\* A link with one leading "/", not excluded, whose path ends in .md.
RootRelativeMd(h) ==
    /\ ~Excluded(h)
    /\ h[1] = "/"
    /\ ~StartsWith(h, <<"/", "/">>)
    /\ IsMd(HrefPath(h))

\* C16: a root-relative link to a document is rewritten to the target of
\* its path without the leading "/", with its fragment if it has one,
\* whatever the current document.
C16_RootRelativeRewritten ==
    \A k \in Links :
        RootRelativeMd(html[k]) => doc_html[k] = Target(Tail(HrefPath(html[k])), html[k])

\* The document directly at the root links to /docs/intro.md#part2, which
\* has become http://localhost:8765/#/docs/intro.md#part2.
C16_Witness ==
    /\ doc_html # None
    /\ doc_path = <<"s", "e", "t", "u", "p", ".", "m", "d">>
    /\ html = << <<"/", "d", "o", "c", "s", "/">> \o IntroMd \o <<"#", "p", "a", "r", "t", "2">> >>
    /\ doc_html = << <<"h", "t", "t", "p", ":", "/", "/", "l", "o", "c", "a", "l", "h", "o", "s", "t",
                       ":", "8", "7", "6", "5", "/", "#", "/", "d", "o", "c", "s", "/">>
                     \o IntroMd \o <<"#", "p", "a", "r", "t", "2">> >>

\* C17: an empty link, a link that begins with "#" or "mailto:", and a link
\* with a scheme or a host comes out as it went in, whatever its path.
C17_ExcludedLinksUnchanged ==
    \A k \in Links : Excluded(html[k]) => doc_html[k] = html[k]

\* The scheme-relative link //docs/intro.md came out as it went in.
C17_Witness ==
    /\ doc_html # None
    /\ html = << <<"/", "/", "d", "o", "c", "s", "/">> \o IntroMd >>
    /\ doc_html = html

\* What a rewritten link has after {base_url}/#/, up to its fragment.
RoutePath(target) ==
    HrefPath(SubSeq(target, Len(BASE_URL) + 4, Len(target)))

\* C18: the candidate of a rewritten link has no ".." segment.
C18_NoDotDotInTarget ==
    \A k \in Links :
        Rewritten(k) =>
            \A i \in 1..Len(Split(RoutePath(doc_html[k]), "/")) :
                Split(RoutePath(doc_html[k]), "/")[i] # <<".", ".">>

\* C20: rewriting the html that came out, with the same document and base
\* URL, gives it back as it is.
C20_RewriteIdempotent ==
    doc_html # None => RewriteMdLinksInHtml(doc_html, doc_path, BASE_URL) = doc_html

\* The nested document links to ../intro.md and to intro.md; both were
\* rewritten, the first to http://localhost:8765/#/docs/intro.md.
C20_Witness ==
    /\ doc_html # None
    /\ doc_path = <<"d", "o", "c", "s", "/", "g", "u", "i", "d", "e", "/",
                    "s", "e", "t", "u", "p", ".", "m", "d">>
    /\ html = << <<".", ".", "/">> \o IntroMd, IntroMd >>
    /\ doc_html[1] = <<"h", "t", "t", "p", ":", "/", "/", "l", "o", "c", "a", "l", "h", "o", "s", "t",
                       ":", "8", "7", "6", "5", "/", "#", "/", "d", "o", "c", "s", "/">> \o IntroMd
    /\ Rewritten(2)
====
